---- MODULE Spec2Model ----
(***************************************************************************)
(* A model of go-httprange: the HTTP range reader (httpreadat.go) and the  *)
(* parallel chunked downloader (down.go).                                  *)
(*                                                                         *)
(* Header values are sequences of one-character strings, so that the       *)
(* formatting of a Range header and the parsing of a Content-Range header  *)
(* are computed the way the code computes them.  The bytes of the resource *)
(* are identified by their position: byte i of the resource has value i.   *)
(* A byte buffer is kept as a set of segments [lo, hi, d]: the positions   *)
(* lo..hi-1 of the buffer hold the resource bytes lo+d..hi-1+d; positions  *)
(* covered by no segment still hold the zero of make([]byte, n).           *)
(***************************************************************************)
EXTENDS Integers, Sequences, FiniteSets, Bags, TLC

(***************************************************************************)
(* Generic helpers                                                         *)
(***************************************************************************)
Min(a, b) == IF a <= b THEN a ELSE b

Max(a, b) == IF a >= b THEN a ELSE b

SeqRange(s) == {s[i] : i \in 1..Len(s)}

(***************************************************************************)
(* Strings: strings.Split, strconv.ParseInt, fmt.Sprintf("%d")             *)
(***************************************************************************)
DigitChars == <<"0", "1", "2", "3", "4", "5", "6", "7", "8", "9">>

IsDigit(c) == c \in SeqRange(DigitChars)

DigitVal(c) == (CHOOSE i \in 1..10 : DigitChars[i] = c) - 1

\* the decimal digits of n >= 0
RECURSIVE NatStr(_)
NatStr(n) == IF n < 10 THEN <<DigitChars[n + 1]>>
             ELSE NatStr(n \div 10) \o <<DigitChars[(n % 10) + 1]>>

\* fmt's %d verb
Itoa(n) == IF n < 0 THEN <<"-">> \o NatStr(0 - n) ELSE NatStr(n)

\* the value of a nonempty sequence of digits
RECURSIVE DigitsVal(_)
DigitsVal(s) == IF Len(s) = 0 THEN 0
                ELSE 10 * DigitsVal(SubSeq(s, 1, Len(s) - 1)) + DigitVal(s[Len(s)])

\* the digits of s without its leading zeros
RECURSIVE TrimZeros(_)
TrimZeros(s) == IF Len(s) > 1 /\ s[1] = "0" THEN TrimZeros(Tail(s)) ELSE s

\* the digit sequences a and b have the same length and a is at most b
DigitsLeq(a, b) ==
    /\ Len(a) = Len(b)
    /\ \/ a = b
       \/ \E i \in 1..Len(a) :
             /\ DigitVal(a[i]) < DigitVal(b[i])
             /\ \A j \in 1..(i - 1) : a[j] = b[j]

\* the digits of 1<<63 - 1, the largest int64
MaxInt64Digits ==
    <<"9", "2", "2", "3", "3", "7", "2", "0", "3", "6", "8", "5", "4", "7", "7", "5",
      "8", "0", "7">>

\* the digits of 1<<63, the magnitude of the smallest int64
MinInt64Digits ==
    <<"9", "2", "2", "3", "3", "7", "2", "0", "3", "6", "8", "5", "4", "7", "7", "5",
      "8", "0", "8">>

\* the value written with the digits fits an int64 (neg: after a "-")
InInt64(digits, neg) ==
    \/ Len(TrimZeros(digits)) < Len(MaxInt64Digits)
    \/ DigitsLeq(TrimZeros(digits), IF neg THEN MinInt64Digits ELSE MaxInt64Digits)

\* strconv.ParseInt(s, 10, 64): an optional sign, then one or more digits; a
\* value that does not fit an int64 is an error (ErrRange), as a value that
\* is not a number is (ErrSyntax)
ParseInt(s) ==
    LET signed == Len(s) > 0 /\ s[1] \in {"+", "-"}
        digits == IF signed THEN Tail(s) ELSE s
    IN  IF Len(digits) = 0 \/ \E i \in 1..Len(digits) : ~IsDigit(digits[i])
        THEN [ok |-> FALSE, val |-> 0]
        ELSE IF ~InInt64(digits, signed /\ s[1] = "-")
        THEN [ok |-> FALSE, val |-> 0]
        ELSE [ok |-> TRUE,
              val |-> IF signed /\ s[1] = "-" THEN 0 - DigitsVal(digits)
                      ELSE DigitsVal(digits)]

\* strings.Split(s, sep) for a one-character separator: every occurrence cuts
RECURSIVE Split(_, _)
Split(s, sep) ==
    IF \A i \in 1..Len(s) : s[i] # sep THEN <<s>>
    ELSE LET k == CHOOSE i \in 1..Len(s) :
                      s[i] = sep /\ \A j \in 1..(i - 1) : s[j] # sep
         IN  <<SubSeq(s, 1, k - 1)>> \o Split(SubSeq(s, k + 1, Len(s)), sep)

StrBytes == <<"b", "y", "t", "e", "s">>

(***************************************************************************)
(* Errors are sequences of strings: <<>> is nil, the head is the error     *)
(* and the tail the chain of errors it wraps (%w).                         *)
(***************************************************************************)
Nil == <<>>

errParse == <<"content-range parse error">>

ErrValidationFailed == <<"validation failed">>

ErrNoRange == <<"server does not support range requests">>

EOF == <<"EOF">>

ErrUnexpectedEOF == <<"unexpected EOF">>

\* errors.Is(err, target)
ErrorsIs(err, target) == target # Nil /\ target[1] \in SeqRange(err)

(***************************************************************************)
(* parseContentRange.  The function is cut into its successive steps, each *)
(* an operator that takes the values computed so far.                      *)
(***************************************************************************)
ParseFail == [first |-> -1, last |-> -1, length |-> -1, err |-> errParse]

\* parseResult without the final test
parseResultAny(first, last, length) ==
    [first |-> first, last |-> last, length |-> length, err |-> Nil]

\* the final test: a value with nothing known is an error
parseResult(first, last, length) ==
    IF first = -1 /\ last = -1 /\ length = -1 THEN ParseFail
    ELSE [first |-> first, last |-> last, length |-> length, err |-> Nil]

\* first, last: pf, pe are the results of strconv.ParseInt
parseFirstLast(l3, pf, pe, length) ==
    IF Len(l3) # 2 THEN ParseFail
    ELSE IF ~pf.ok THEN ParseFail
    ELSE IF ~pe.ok THEN ParseFail
    ELSE parseResult(pf.val, pe.val, length)

\* the range side: strList = strings.Split(strList[0], "-")
parseRangeSide(l3, length) ==
    parseFirstLast(l3, ParseInt(l3[1]), ParseInt(l3[2]), length)

\* the length side: pl is the result of strconv.ParseInt(strList[1], 10, 64)
parseLengthSide(l2, pl) ==
    IF l2[2] # <<"*">> /\ ~pl.ok THEN ParseFail
    ELSE IF l2[1] # <<"*">>
    THEN parseRangeSide(Split(l2[1], "-"), IF l2[2] # <<"*">> THEN pl.val ELSE -1)
    ELSE parseResult(-1, -1, IF l2[2] # <<"*">> THEN pl.val ELSE -1)

\* strList = strings.Split(strList[1], "/")
parseSlash(l2) ==
    IF Len(l2) # 2 THEN ParseFail ELSE parseLengthSide(l2, ParseInt(l2[2]))

\* strList = strings.Split(str, " ")
parseSpace(l1) ==
    IF Len(l1) # 2 \/ l1[1] # StrBytes THEN ParseFail
    ELSE parseSlash(Split(l1[2], "/"))

parseContentRange(str) == parseSpace(Split(str, " "))

(***************************************************************************)
(* Meta and getMeta                                                        *)
(***************************************************************************)
StatusOK == 200

StatusPartialContent == 206

StatusRangeNotSatisfiable == 416

ZeroMeta == [start |-> 0, end |-> 0, size |-> 0,
             lastModified |-> "", etag |-> "", contentType |-> ""]

\* the meta getMeta starts from
HeaderMeta(resp) ==
    [start |-> -1, end |-> -1, size |-> 0,
     lastModified |-> resp.lm, etag |-> resp.etag, contentType |-> resp.ct]

\* case http.StatusPartialContent with a Content-Range header: cr is the
\* result of parseContentRange
getMetaRange(meta, cr) ==
    IF cr.err # Nil THEN [meta |-> ZeroMeta, err |-> cr.err]
    ELSE [meta |-> [meta EXCEPT !.start = cr.first, !.end = cr.last,
                                !.size = cr.length],
          err |-> Nil]

getMeta(resp) ==
    IF resp.status = StatusOK
    THEN [meta |-> [HeaderMeta(resp) EXCEPT !.size = resp.cl], err |-> Nil]
    ELSE IF resp.status = StatusPartialContent /\ resp.cr # <<>>
    THEN getMetaRange(HeaderMeta(resp), parseContentRange(resp.cr))
    ELSE [meta |-> HeaderMeta(resp), err |-> Nil]

(***************************************************************************)
(* The reader: New / init, Size, ReadAt                                    *)
(***************************************************************************)
MethodGet == "GET"

\* fmt.Sprintf(HttpHeaderRangeFormat, first, last)
HttpHeaderRangeFormat(first, last) ==
    StrBytes \o <<"=">> \o Itoa(first) \o <<"-">> \o Itoa(last)

\* init: the Range header of the probe, "bytes=0-0"
ProbeRange == StrBytes \o <<"=", "0", "-", "0">>

\* A header is a function from names to lists of values.  Requests hold a
\* reference to their header: heap is the sequence of the header objects,
\* a request is [method, header], header being an index of heap.
EmptyHeader == [k \in {} |-> <<>>]

cloneHeader(h) == [k \in DOMAIN h |-> [i \in 1..Len(h[k]) |-> h[k][i]]]

\* cloneRequest that copies the request and keeps its header map
cloneRequestShared(heap, r) == [heap |-> heap, req |-> r]

\* ra.cloneRequest(), r being ra.req: the copy has a header of its own
cloneRequest(heap, r) ==
    [heap |-> Append(heap, cloneHeader(heap[r.header])),
     req  |-> [r EXCEPT !.header = Len(heap) + 1]]

\* http.Header.Set(key, value) on the header object ref
HeaderSet(heap, ref, key, value) ==
    [heap EXCEPT ![ref] = [k \in (DOMAIN @) \cup {key} |->
                              IF k = key THEN <<value>> ELSE @[k]]]

\* http.Header.Get(key)
HeaderGet(h, key) == IF key \in DOMAIN h /\ Len(h[key]) > 0 THEN h[key][1] ELSE <<>>

\* req.Header.Set("Range", range) on the clone c; the prototype is object 1
\* of the heap.  proto: the prototype's header afterwards, range: the Range
\* header of the request that is sent
SetRange(c, range) ==
    [proto |-> HeaderSet(c.heap, c.req.header, "Range", range)[1],
     range |-> HeaderGet(HeaderSet(c.heap, c.req.header, "Range", range)[c.req.header],
                         "Range")]

\* init and ReadAt: the request that is made from the prototype r = [method,
\* header] with the Range header range
SendRange(r, range) ==
    SetRange(cloneRequest(<<r.header>>, [method |-> r.method, header |-> 1]), range)

\* ReadAt: the request of q, or none
ReadAtSend(r, q) ==
    IF q.send THEN SendRange(r, q.range) ELSE [proto |-> r.header, range |-> <<>>]

\* init, after the status test: m is the result of getMeta(resp)
initMeta(m) ==
    IF m.err # Nil THEN [meta |-> ZeroMeta, err |-> m.err]
    ELSE [meta |-> m.meta, err |-> Nil]

\* init, given the response (or transport error) the probe request got
init(resp) ==
    IF resp.err # Nil
    THEN [meta |-> ZeroMeta, err |-> <<"http request error">> \o resp.err]
    ELSE IF resp.status # StatusPartialContent
    THEN [meta |-> ZeroMeta, err |-> <<"unexpect http request">>]
    ELSE initMeta(getMeta(resp))

\* New, after the argument tests: r is the result of ra.init()
NewInit(r) == [ok |-> r.err = Nil, meta |-> r.meta, err |-> r.err, sent |-> TRUE]

\* New(client, req): ok says that a reader was returned, sent that the probe
\* request was made
New(hasClient, hasReq, method, resp) ==
    IF ~hasClient \/ ~hasReq
    THEN [ok |-> FALSE, meta |-> ZeroMeta, err |-> <<"invalid args">>, sent |-> FALSE]
    ELSE IF method # MethodGet
    THEN [ok |-> FALSE, meta |-> ZeroMeta,
          err |-> <<"invalid HTTP method, must be GET">>, sent |-> FALSE]
    ELSE NewInit(init(resp))

Size(ra) == ra.size

\* io.ReadFull(resp.Body, p) for a buffer of plen bytes: the body delivers
\* body.len bytes and then ends with body.end
ReadFull(body, plen) ==
    IF body.len >= plen THEN [n |-> plen, err |-> Nil]
    ELSE IF body.end = EOF
    THEN [n |-> body.len, err |-> IF body.len = 0 THEN EOF ELSE ErrUnexpectedEOF]
    ELSE [n |-> body.len, err |-> body.end]

\* ReadAt: the request for reqFirst..reqLast, clamped when clamp holds
ReadAtClamp(plen, reqFirst, reqLast, clamp) ==
    IF plen = 0
    THEN [send |-> FALSE, n |-> 0, err |-> Nil, first |-> reqFirst, last |-> reqLast,
          plen |-> plen, returnErr |-> Nil, range |-> <<>>]
    ELSE IF clamp /\ reqLast < reqFirst
    THEN [send |-> FALSE, n |-> 0, err |-> EOF, first |-> reqFirst, last |-> reqLast,
          plen |-> plen, returnErr |-> EOF, range |-> <<>>]
    ELSE [send |-> TRUE, n |-> 0, err |-> Nil, first |-> reqFirst, last |-> reqLast,
          plen |-> IF clamp THEN reqLast - reqFirst + 1 ELSE plen,
          returnErr |-> IF clamp THEN EOF ELSE Nil,
          range |-> HttpHeaderRangeFormat(reqFirst, reqLast)]

\* ReadAtRequest with the clamp one byte too far
ReadAtRequestOffByOne(ra, plen, off) ==
    IF ra.size # -1 /\ off + plen - 1 > ra.size
    THEN ReadAtClamp(plen, off, ra.size, TRUE)
    ELSE ReadAtClamp(plen, off, off + plen - 1, FALSE)

\* the first part of ReadAt, up to the request: what is asked of the server.
\*   send    a request is issued
\*   n, err  the result when no request is issued
\*   plen    len(p) after the clamp
ReadAtRequest(ra, plen, off) ==
    IF ra.size # -1 /\ off + plen - 1 > ra.size - 1
    THEN ReadAtClamp(plen, off, ra.size - 1, TRUE)
    ELSE ReadAtClamp(plen, off, off + plen - 1, FALSE)

ReadAtFail(q, e) ==
    [n |-> 0, err |-> e, copied |-> 0, src |-> 0, sent |-> q.send, range |-> q.range]

\* ReadAtBody that forgets the io.EOF of a clamped read
ReadAtBodyNoReturnErr(q, resp, rf) ==
    [n |-> rf.n,
     err |-> IF rf.err = ErrUnexpectedEOF THEN EOF ELSE rf.err,
     copied |-> rf.n, src |-> resp.body.src, sent |-> TRUE, range |-> q.range]

\* ReadAt, from io.ReadFull on: rf is its result
ReadAtBody(q, resp, rf) ==
    [n |-> rf.n,
     err |-> IF rf.err = ErrUnexpectedEOF THEN EOF
             ELSE IF rf.err = Nil /\ q.returnErr # Nil THEN q.returnErr
             ELSE rf.err,
     copied |-> rf.n, src |-> resp.body.src, sent |-> TRUE, range |-> q.range]

\* ReadAtCheck without the comparison of the ETag
ReadAtCheckNoETag(ra, q, resp, m) ==
    IF m.err # Nil THEN ReadAtFail(q, m.err)
    ELSE IF ra.size # m.meta.size \/ ra.lastModified # m.meta.lastModified
    THEN ReadAtFail(q, ErrValidationFailed)
    ELSE IF m.meta.start # q.first \/ m.meta.end > q.last
    THEN ReadAtFail(q, <<"received different range than requested">>)
    ELSE IF resp.cl # m.meta.end - m.meta.start + 1
    THEN ReadAtFail(q, <<"content-length mismatch in http response">>)
    ELSE ReadAtBody(q, resp, ReadFull(resp.body, q.plen))

\* ReadAtCheck that tests the start of the range only
ReadAtCheckStartOnly(ra, q, resp, m) ==
    IF m.err # Nil THEN ReadAtFail(q, m.err)
    ELSE IF ra.size # m.meta.size \/ ra.lastModified # m.meta.lastModified
            \/ ra.etag # m.meta.etag
    THEN ReadAtFail(q, ErrValidationFailed)
    ELSE IF m.meta.start # q.first
    THEN ReadAtFail(q, <<"received different range than requested">>)
    ELSE IF resp.cl # m.meta.end - m.meta.start + 1
    THEN ReadAtFail(q, <<"content-length mismatch in http response">>)
    ELSE ReadAtBody(q, resp, ReadFull(resp.body, q.plen))

\* ReadAt, the checks of the response: m is the result of getMeta(resp)
ReadAtCheck(ra, q, resp, m) ==
    IF m.err # Nil THEN ReadAtFail(q, m.err)
    ELSE IF ra.size # m.meta.size \/ ra.lastModified # m.meta.lastModified
            \/ ra.etag # m.meta.etag
    THEN ReadAtFail(q, ErrValidationFailed)
    ELSE IF m.meta.start # q.first \/ m.meta.end > q.last
    THEN ReadAtFail(q, <<"received different range than requested">>)
    ELSE IF resp.cl # m.meta.end - m.meta.start + 1
    THEN ReadAtFail(q, <<"content-length mismatch in http response">>)
    ELSE ReadAtBody(q, resp, ReadFull(resp.body, q.plen))

\* ReadAtResponse that also takes a 200 OK
ReadAtResponseWith200(ra, q, resp) ==
    IF ~q.send THEN ReadAtFail(q, q.err)
    ELSE IF resp.err # Nil THEN ReadAtFail(q, <<"http request error">> \o resp.err)
    ELSE IF resp.status \notin {StatusPartialContent, StatusOK}
    THEN ReadAtFail(q, <<"unexpect http request">> \o ErrNoRange)
    ELSE ReadAtCheck(ra, q, resp, getMeta(resp))

\* ReadAt, once the request q is made and answered by resp
ReadAtResponse(ra, q, resp) ==
    IF ~q.send THEN ReadAtFail(q, q.err)
    ELSE IF resp.err # Nil THEN ReadAtFail(q, <<"http request error">> \o resp.err)
    ELSE IF resp.status # StatusPartialContent
    THEN ReadAtFail(q, <<"unexpect http request">> \o ErrNoRange)
    ELSE ReadAtCheck(ra, q, resp, getMeta(resp))

\* ReadAt(p, off) with len(p) = plen, given the response to its request.
\*   n, err  the result;  copied  bytes of the body stored in p[0..copied)
\*   src     resource position of the first stored byte
ReadAt(ra, plen, off, resp) == ReadAtResponse(ra, ReadAtRequest(ra, plen, off), resp)

(***************************************************************************)
(* Byte buffers as sets of segments                                        *)
(***************************************************************************)
\* the segments of segs with the positions lo..hi-1 cut out
Clip(segs, lo, hi) ==
    {[s EXCEPT !.hi = Min(s.hi, lo)] : s \in {t \in segs : t.lo < lo}}
    \cup {[s EXCEPT !.lo = Max(s.lo, hi)] : s \in {t \in segs : t.hi > hi}}

\* copy n body bytes, the resource bytes src.., to the positions at..at+n-1
Store(segs, at, n, src) ==
    IF n <= 0 THEN segs
    ELSE Clip(segs, at, at + n) \cup {[lo |-> at, hi |-> at + n, d |-> src - at]}

\* every position of lo..hi-1 holds the resource byte d further on
Holds(segs, lo, hi, d) ==
    \A x \in {lo} \cup {s.hi : s \in {t \in segs : lo < t.hi /\ t.hi < hi}} :
        x < hi => \E s \in segs : s.lo <= x /\ x < s.hi /\ s.d = d

\* no position of lo..hi-1 was ever written
Untouched(segs, lo, hi) == \A s \in segs : s.hi <= lo \/ s.lo >= hi

(***************************************************************************)
(* The chunk planners                                                      *)
(***************************************************************************)
chunkSize == 64 * 1024

\* Go's integer division truncates toward zero
GoDiv(a, b) == IF a >= 0 THEN a \div b ELSE 0 - ((0 - a) \div b)

\* makeMemoryTask without the trailing chunk
makeMemoryTaskNoTail(totalSize, buf) ==
    [i \in 1..GoDiv(totalSize, chunkSize) |->
        [Offset |-> (i - 1) * chunkSize,
         lo |-> (i - 1) * chunkSize,
         hi |-> (i - 1) * chunkSize + chunkSize]]

\* A memory task is [Offset, lo, hi]: Content is the window buf[lo:hi].
makeMemoryTask(totalSize, buf) ==
    LET taskCount == GoDiv(totalSize, chunkSize)
        taskList  == [i \in 1..taskCount |->
                         [Offset |-> (i - 1) * chunkSize,
                          lo |-> (i - 1) * chunkSize,
                          hi |-> (i - 1) * chunkSize + chunkSize]]
        offset    == IF taskCount > 0 THEN taskCount * chunkSize ELSE 0
    IN  IF offset < totalSize
        THEN Append(taskList, [Offset |-> offset, lo |-> offset, hi |-> totalSize])
        ELSE taskList

\* makeTask of the other Do of down.go.  A Task is [Offset, lo, hi]: Content is the window buf[lo:hi].
makeTask(totalSize, buf) ==
    LET taskCount == GoDiv(totalSize, chunkSize)
        taskList  == [i \in 1..taskCount |->
                         [Offset |-> (i - 1) * chunkSize,
                          lo |-> (i - 1) * chunkSize,
                          hi |-> (i - 1) * chunkSize + chunkSize]]
        offset    == IF taskCount > 0 THEN taskCount * chunkSize ELSE 0
    IN  IF offset < totalSize
        THEN Append(taskList, [Offset |-> offset, lo |-> offset, hi |-> totalSize])
        ELSE taskList

\* makeFileTask with a trailing chunk of the full chunk size
makeFileTaskFullTail(totalSize) ==
    LET taskCount == GoDiv(totalSize, chunkSize)
        taskList  == [i \in 1..taskCount |->
                         [Offset |-> (i - 1) * chunkSize, Size |-> chunkSize]]
        offset    == IF taskCount > 0 THEN taskCount * chunkSize ELSE 0
    IN  IF offset < totalSize
        THEN Append(taskList, [Offset |-> offset, Size |-> chunkSize])
        ELSE taskList

\* A file task is [Offset, Size].
makeFileTask(totalSize) ==
    LET taskCount == GoDiv(totalSize, chunkSize)
        taskList  == [i \in 1..taskCount |->
                         [Offset |-> (i - 1) * chunkSize, Size |-> chunkSize]]
        offset    == IF taskCount > 0 THEN taskCount * chunkSize ELSE 0
    IN  IF offset < totalSize
        THEN Append(taskList, [Offset |-> offset, Size |-> totalSize - offset])
        ELSE taskList

(***************************************************************************)
(* readChunk                                                               *)
(***************************************************************************)
\* Clone(ctx): a reader bound to ctx that shares the cached metadata
Clone(ra) == ra

\* readChunk, after the call of ReadAt: r is its result
readChunkResult(plen, r) ==
    IF r.err # Nil THEN [err |-> r.err, copied |-> r.copied, src |-> r.src]
    ELSE IF r.n # plen
    THEN [err |-> <<"download size not equal with expect size">>,
          copied |-> r.copied, src |-> r.src]
    ELSE [err |-> Nil, copied |-> r.copied, src |-> r.src]

\* readChunk(ctx, preReader, task) for a task whose Content has plen bytes,
\* given the response to the request of its ReadAt
readChunk(ra, offset, plen, resp) ==
    readChunkResult(plen, ReadAt(Clone(ra), plen, offset, resp))

\* readChunk of the other Do of down.go, once its New(clt, req) has returned
\* chunkReader: resp is the response to the request of chunkReader.ReadAt
readChunkNew(chunkReader, offset, plen, resp) ==
    readChunkResult(plen, ReadAt(chunkReader, plen, offset, resp))

(***************************************************************************)
(* State                                                                   *)
(***************************************************************************)
VARIABLES
    op,          \* the entry point being run: "ReadAt" (New, then ReadAt calls), "Do",
                 \* "DoToFile", "DoPerChunk" (the Do that makes a reader per chunk)
    resSize,     \* the size of the resource on the server
    pc,          \* the caller's position: "start", "ready", "wait", "done", "panic"
    ra,          \* the reader's meta, set by New
    cancelled,   \* the caller's ctx is cancelled
    rd,          \* ReadAt mode: <<>> or <<the ReadAt call: plen, off, resp, res>>
    buf,         \* Do: the destination buffer [len, segs]
    plan,        \* the task list as planned
    taskCh,      \* the task channel: the tasks not yet received
    workers,     \* the bag of the workers' local states [pc, task, err], with
                 \* chunkReader while a worker of the other Do holds its reader
    errCtxDone,  \* errCtx.Done() is closed
    groupErr,    \* the error the errgroup keeps
    result,      \* what the entry point returned: [returned, hasBuf, err]
    chunkResultCh, \* DoToFile: the results sent and not yet received
    writer,      \* DoToFile: the writer's local state [pc, totalWrite, err]
    file,        \* DoToFile: the bytes of the file, as segments
    req,         \* the prototype request the reader holds: [method, header]
    checked,     \* DoWithCheck: <<>> or <<its call: sha256Sum, zeros, res>>
    parsed,      \* parseContentRange: <<>> or its call [str, done, res]
    hist         \* history: what happened in New, ReadAt, Do and DoToFile, for
                 \* stating the properties

vars == <<op, resSize, pc, ra, cancelled, rd, buf, plan, taskCh, workers,
          errCtxDone, groupErr, result, chunkResultCh, writer, file, req,
          checked, parsed, hist>>

fileVars == <<chunkResultCh, writer, file>>

(***************************************************************************)
(* Bounds                                                                  *)
(***************************************************************************)
\* resources of up to MaxChunks chunks
MaxChunks == 2

\* the number of workers: concurrentCount, 48 in Do and DoToFile
concurrentCount == 3

\* the sizes of the served resource: empty, and at and one byte past every
\* chunk boundary
ResourceSizes ==
    {k * chunkSize + r : k \in 0..(MaxChunks - 1), r \in {0, 1}}
        \cup {MaxChunks * chunkSize}

\* the headers of the request given to New: none, or a token and a Range
\* header left by the caller
ProtoHeaders ==
    {EmptyHeader,
     [k \in {"Authorization", "Range"} |->
         IF k = "Range" THEN <<StrBytes \o <<"=", "5", "-", "6">>>> ELSE <<<<"t", "k">>>>]}

\* ReadAt mode: the lengths and offsets of the calls
ReadLens == {0, 1, 2, chunkSize}

ReadOffs == {0, 1} \cup {x \in {resSize - 1, resSize, resSize + 1} : x >= 0}

(***************************************************************************)
(* The transport (Requester) and the server behind it                      *)
(***************************************************************************)
ContentRange(first, last, size) ==
    StrBytes \o <<" ">> \o Itoa(first) \o <<"-">> \o Itoa(last) \o <<"/">> \o Itoa(size)

ContentRangeStar(first, last) ==
    StrBytes \o <<" ">> \o Itoa(first) \o <<"-">> \o Itoa(last) \o <<"/", "*">>

\* a Content-Range header that parseContentRange refuses: no "/" and length
BadContentRange(first, last) ==
    StrBytes \o <<" ">> \o Itoa(first) \o <<"-">> \o Itoa(last)

ContentRangeUnsatisfied(size) == StrBytes \o <<" ", "*", "/">> \o Itoa(size)

\* the server's reading of a Range header "bytes=F-L"
ParseRangeBounds(a, b, pf, pl) ==
    IF Len(a) = 2 /\ a[1] = StrBytes /\ Len(b) = 2 /\ pf.ok /\ pl.ok
    THEN [ok |-> TRUE, first |-> pf.val, last |-> pl.val]
    ELSE [ok |-> FALSE, first |-> 0, last |-> 0]

ParseRangeSplit(a, b) == ParseRangeBounds(a, b, ParseInt(b[1]), ParseInt(b[2]))

ParseRangeEq(a) == ParseRangeSplit(a, Split(a[2], "-"))

ParseRange(h) == ParseRangeEq(Split(h, "="))

Response(status, cr, cl, src, len) ==
    [err |-> Nil, status |-> status, cr |-> cr, lm |-> "m1", etag |-> "e1",
     ct |-> "t", cl |-> cl, body |-> [src |-> src, len |-> len, end |-> EOF]]

\* no response: the transport was not called
NoResponse == Response(0, <<>>, 0, 0, 0)

Unsatisfiable ==
    Response(StatusRangeNotSatisfiable, ContentRangeUnsatisfied(resSize), 0, 0, 0)

\* the answer of a server that honors Range, for an unchanged resource, to
\* the request for first..last
HonestRange(ok, first, last) ==
    IF ok /\ 0 <= first /\ first < resSize /\ first <= last
    THEN Response(StatusPartialContent, ContentRange(first, Min(last, resSize - 1), resSize),
                  Min(last, resSize - 1) - first + 1, first,
                  Min(last, resSize - 1) - first + 1)
    ELSE Unsatisfiable

HonestParsed(r) == HonestRange(r.ok, r.first, r.last)

HonestResponse(range) == HonestParsed(ParseRange(range))

TransportErrors ==
    {<<"connection reset">>, <<"context deadline exceeded">>}
    \cup (IF cancelled THEN {<<"context canceled">>} ELSE {})

\* the honest 206 response h for f..l, changed in one respect
Deviations(h, f, l) ==
    {[h EXCEPT !.etag = "e2"],
     [h EXCEPT !.lm = "m2"],
     [h EXCEPT !.cr = ContentRange(f, l, resSize + 1)],
     [h EXCEPT !.cr = ContentRangeStar(f, l)],
     [h EXCEPT !.cr = <<>>],
     [h EXCEPT !.cr = BadContentRange(f, l)],
     [h EXCEPT !.cr = ContentRange(f + 1, l + 1, resSize), !.body.src = f + 1],
     [h EXCEPT !.cr = ContentRange(f, l + 1, resSize),
               !.cl = h.cl + 1, !.body.len = h.cl + 1],
     [h EXCEPT !.cl = h.cl + 1],
     [h EXCEPT !.body.len = 0]}
    \cup (IF l > f
          THEN {[h EXCEPT !.cr = ContentRange(f, l - 1, resSize),
                          !.cl = h.cl - 1, !.body.len = h.cl - 1]}
          ELSE {})
    \cup {[h EXCEPT !.body.len = h.cl - 1, !.body.end = e] :
             e \in {EOF, ErrUnexpectedEOF, <<"connection reset">>}}

\* what the transport may return when the honest response is h
ResponsesOf(h) ==
    {h}
    \cup {[h EXCEPT !.err = e] : e \in TransportErrors}
    \cup {Response(StatusOK, <<>>, resSize, 0, resSize), Unsatisfiable}
    \cup (IF h.status # StatusPartialContent THEN {}
          ELSE Deviations(h, h.body.src, h.body.src + h.cl - 1))

\* what the transport may return for a request with this Range header: the
\* honest response, a transport error, or the honest response changed in one
\* respect
Responses(range) == ResponsesOf(HonestResponse(range))

\* The answers a download is run against; a ReadAt called on its own is run
\* against all of Responses.
\* the probe of a download: the honest answer, a transport error, a status
\* other than 206, a Content-Range that does not parse, another ETag, a
\* Content-Range without a total length or no Content-Range at all, and a
\* total length one above the resource's (where that gives the plan a longer
\* last task and not one task more, which keeps the plans within MaxChunks
\* tasks)
ProbeAnswersOf(h) ==
    {h}
    \cup {[h EXCEPT !.err = e] : e \in TransportErrors}
    \cup {Response(StatusOK, <<>>, resSize, 0, resSize)}
    \cup (IF h.status # StatusPartialContent THEN {}
          ELSE {[h EXCEPT !.cr = BadContentRange(h.body.src, h.body.src + h.cl - 1)],
                [h EXCEPT !.etag = "e2"],
                [h EXCEPT !.cr = ContentRangeStar(h.body.src, h.body.src + h.cl - 1)],
                [h EXCEPT !.cr = <<>>]}
               \cup (IF resSize % chunkSize = 0 THEN {}
                     ELSE {[h EXCEPT !.cr = ContentRange(h.body.src,
                                                         h.body.src + h.cl - 1,
                                                         resSize + 1)]}))

ProbeAnswers(range) == ProbeAnswersOf(HonestResponse(range))

\* a chunk request of a download: the honest answer, a transport error, a
\* status other than 206, a Content-Range that does not parse, another ETag,
\* another range than the one asked for, a Content-Length that does not fit
\* the range, a body that ends one byte early, and a body that the
\* connection cuts one byte early
ChunkAnswersOf(h) ==
    {h}
    \cup {[h EXCEPT !.err = e] : e \in TransportErrors}
    \cup {Response(StatusOK, <<>>, resSize, 0, resSize)}
    \cup (IF h.status # StatusPartialContent THEN {}
          ELSE {[h EXCEPT !.cr = BadContentRange(h.body.src, h.body.src + h.cl - 1)],
                [h EXCEPT !.etag = "e2"],
                [h EXCEPT !.cr = ContentRange(h.body.src + 1, h.body.src + h.cl, resSize),
                          !.body.src = h.body.src + 1],
                [h EXCEPT !.cl = h.cl + 1],
                [h EXCEPT !.body.len = h.cl - 1],
                [h EXCEPT !.body.len = h.cl - 1,
                          !.body.end = <<"connection reset">>]})

ChunkAnswers(range) == ChunkAnswersOf(HonestResponse(range))

(***************************************************************************)
(* Init, New and ReadAt calls                                              *)
(***************************************************************************)
Ops == {"ReadAt", "Do", "DoToFile", "DoPerChunk"}

NoResult == [returned |-> FALSE, hasBuf |-> FALSE, err |-> Nil]

NoBuf == [len |-> 0, segs |-> {}]

Idle == [pc |-> "recv", task |-> <<>>, err |-> Nil]

Exited == [pc |-> "exit", task |-> <<>>, err |-> Nil]

\* a worker whose function returned err, before the errgroup has taken it
Failed(err) == [pc |-> "fail", task |-> <<>>, err |-> err]

\* no request: New was not called yet
NoRequest == [method |-> "", header |-> EmptyHeader]

Init ==
    /\ op \in Ops
    /\ resSize \in ResourceSizes
    /\ pc = "start"
    /\ ra = ZeroMeta
    /\ cancelled = FALSE
    /\ rd = <<>>
    /\ buf = NoBuf
    /\ plan = <<>>
    /\ taskCh = <<>>
    /\ workers = EmptyBag
    /\ errCtxDone = FALSE
    /\ groupErr = Nil
    /\ result = NoResult
    /\ chunkResultCh = <<>>
    /\ writer = [pc |-> "none", totalWrite |-> 0, err |-> Nil]
    /\ file = {}
    /\ req = NoRequest
    /\ checked = <<>>
    /\ parsed = <<>>
    /\ hist = [honest |-> TRUE,       \* every response so far was the honest one
               probed |-> FALSE,      \* New made its probe request
               proto |-> EmptyHeader, \* the header of the request given to New
               meta |-> ZeroMeta,     \* the meta of the reader New returned
               probeStatus |-> 0,     \* the status of the probe's response, if any
               probeCR |-> <<>>,      \* its Content-Range header
               firstFail |-> Nil,     \* the error of the first goroutine to fail
               firstRecorded |-> Nil, \* the first error handed to the errgroup
               fails |-> 0,           \* the goroutines that returned an error
               etagChanged |-> FALSE, \* a chunk response carried another ETag
               reads |-> {},          \* the tasks readChunk read in full
               writes |-> EmptyBag]   \* the offsets the writer wrote at

\* http.NewRequestWithContext(ctx, http.MethodGet, url, nil) fails, for a url
\* that does not parse or a nil ctx: Do and DoToFile return its error, New
\* is not called and nothing is sent
CallNewRequestFails ==
    /\ pc = "start"
    /\ op # "ReadAt"
    /\ pc' = "done"
    /\ result' = [returned |-> TRUE, hasBuf |-> FALSE, err |-> <<"new request error">>]
    /\ UNCHANGED <<op, resSize, ra, cancelled, rd, buf, plan, taskCh, workers,
                   errCtxDone, groupErr, fileVars>>
    /\ UNCHANGED <<req, checked, parsed, hist>>

\* New(clt, req): called directly (any arguments) or by Do / DoToFile (with
\* the GET request that http.NewRequestWithContext returned)
CallNew ==
    /\ pc = "start"
    /\ \E hasClient \in BOOLEAN,
          hasReq \in (IF op = "ReadAt" THEN BOOLEAN ELSE {TRUE}),
          method \in (IF op = "ReadAt" THEN {MethodGet, "HEAD"} ELSE {MethodGet}),
          h0 \in (IF op = "ReadAt" THEN ProtoHeaders ELSE {EmptyHeader}) :
       \E c \in {SendRange([method |-> method, header |-> h0], ProbeRange)} :
       \E resp \in (IF op = "ReadAt" THEN Responses(c.range)
                    ELSE ProbeAnswers(c.range)) :
       \E r \in {New(hasClient, hasReq, method, resp)} :
              /\ ra' = r.meta
              /\ req' = IF ~hasReq THEN NoRequest
                        ELSE [method |-> method,
                              header |-> IF r.sent THEN c.proto ELSE h0]
              /\ pc' = IF r.ok THEN "ready" ELSE "done"
              /\ result' = IF r.ok THEN result
                           ELSE [returned |-> TRUE, hasBuf |-> FALSE, err |-> r.err]
              /\ hist' = IF r.sent
                         THEN [hist EXCEPT !.honest = (resp = HonestResponse(ProbeRange)),
                                           !.proto = h0,
                                           !.meta = r.meta,
                                           !.probed = TRUE,
                                           !.probeStatus = IF resp.err = Nil
                                                           THEN resp.status ELSE 0,
                                           !.probeCR = IF resp.err = Nil
                                                       THEN resp.cr ELSE <<>>]
                         ELSE hist
    /\ UNCHANGED <<op, resSize, cancelled, rd, buf, plan, taskCh, workers,
                   errCtxDone, groupErr, fileVars>>
    /\ UNCHANGED <<checked, parsed>>

\* ra.ReadAt(p, off) on the reader New returned
CallReadAt ==
    /\ pc = "ready"
    /\ op = "ReadAt"
    /\ rd = <<>>
    /\ \E plen \in ReadLens, off \in ReadOffs :
          \E q \in {ReadAtRequest(ra, plen, off)} :
          \E c \in {ReadAtSend(req, q)} :
          \E resp \in (IF q.send THEN Responses(c.range) ELSE {NoResponse}) :
                 /\ rd' = <<[plen |-> plen, off |-> off, resp |-> resp,
                             res |-> ReadAt(ra, plen, off, resp)]>>
                 /\ req' = [req EXCEPT !.header = c.proto]
    /\ UNCHANGED <<op, resSize, pc, ra, cancelled, buf, plan, taskCh, workers,
                   errCtxDone, groupErr, result, hist, fileVars>>
    /\ UNCHANGED <<checked, parsed>>

\* the caller is done with the result of its ReadAt and may call again
ReadAtReturn ==
    /\ pc = "ready"
    /\ op = "ReadAt"
    /\ rd # <<>>
    /\ rd' = <<>>
    /\ UNCHANGED <<op, resSize, pc, ra, cancelled, buf, plan, taskCh, workers,
                   errCtxDone, groupErr, result, hist, fileVars>>
    /\ UNCHANGED <<req, checked, parsed>>

(***************************************************************************)
(* Do: the buffer-mode download                                            *)
(***************************************************************************)
Move(w, w2) == (workers (-) SetToBag({w})) (+) SetToBag({w2})

\* the number of workers that passed the check of errCtx and are about to
\* fetch, or are fetching, their task
Reading(ws) ==
    BagCardinality([w \in {x \in BagToSet(ws) : x.pc = "read"} |-> CopiesIn(w, ws)])

\* the number of workers whose function has returned an error that the
\* errgroup has not taken yet
Failing(ws) ==
    BagCardinality([w \in {x \in BagToSet(ws) : x.pc = "fail"} |-> CopiesIn(w, ws)])

\* an errgroup that keeps the last error
GroupErrLast(err) == err

\* errgroup: the error kept when a function of the group returns err
GroupErr(err) == IF groupErr = Nil THEN err ELSE groupErr

\* the caller cancels ctx; errCtx is derived from it
Cancel ==
    /\ pc \in {"ready", "wait"}
    /\ op # "ReadAt"
    /\ ~cancelled
    /\ cancelled' = TRUE
    /\ errCtxDone' = (pc = "wait")
    /\ UNCHANGED <<op, resSize, pc, ra, rd, buf, plan, taskCh, workers, groupErr,
                   result, hist, fileVars>>
    /\ UNCHANGED <<req, checked, parsed>>

\* Do, from preRead.Size() to the start of the workers
DoStart ==
    /\ pc = "ready"
    /\ op = "Do"
    /\ LET totalSize == Size(ra)
           b         == [len |-> totalSize, segs |-> {}]
       IN  IF totalSize < 0
           THEN /\ pc' = "panic"
                /\ UNCHANGED <<buf, plan, taskCh, workers, errCtxDone>>
           ELSE /\ pc' = "wait"
                /\ buf' = b
                /\ plan' = makeMemoryTask(totalSize, b)
                /\ taskCh' = makeMemoryTask(totalSize, b)
                /\ workers' = SetToBag({Idle}) (+) [w \in {Idle} |-> concurrentCount - 1]
                /\ errCtxDone' = cancelled
    /\ UNCHANGED <<op, resSize, ra, cancelled, rd, groupErr, result, hist, fileVars>>
    /\ UNCHANGED <<req, checked, parsed>>

\* a worker that takes the first task and leaves it in the queue
WorkerRecvPeek ==
    /\ pc = "wait"
    /\ op \in {"Do", "DoToFile"}
    /\ BagIn(Idle, workers)
    /\ IF taskCh = <<>>
       THEN /\ workers' = Move(Idle, Exited)
       ELSE /\ workers' = Move(Idle, [pc |-> "check", task |-> <<Head(taskCh)>>, err |-> Nil])
    /\ UNCHANGED <<op, resSize, pc, ra, cancelled, rd, buf, plan, taskCh, errCtxDone,
                   groupErr, result, hist, fileVars>>
    /\ UNCHANGED <<req, checked, parsed>>

\* for task := range taskCh
WorkerRecv ==
    /\ pc = "wait"
    /\ op \in {"Do", "DoToFile"}
    /\ BagIn(Idle, workers)
    /\ IF taskCh = <<>>
       THEN /\ workers' = Move(Idle, Exited)
            /\ UNCHANGED taskCh
       ELSE /\ workers' = Move(Idle, [pc |-> "check", task |-> <<Head(taskCh)>>, err |-> Nil])
            /\ taskCh' = Tail(taskCh)
    /\ UNCHANGED <<op, resSize, pc, ra, cancelled, rd, buf, plan, errCtxDone,
                   groupErr, result, hist, fileVars>>
    /\ UNCHANGED <<req, checked, parsed>>

\* a worker that does not look at errCtx before its fetch
WorkerCheckNever ==
    /\ pc = "wait"
    /\ \E w \in BagToSet(workers) :
          /\ w.pc = "check"
          /\ workers' = Move(w, [w EXCEPT !.pc = "read"])
    /\ UNCHANGED <<op, resSize, pc, ra, cancelled, rd, buf, plan, taskCh, errCtxDone,
                   groupErr, result, hist, fileVars>>
    /\ UNCHANGED <<req, checked, parsed>>

\* select { case <-errCtx.Done(): return nil; default: }
WorkerCheck ==
    /\ pc = "wait"
    /\ \E w \in BagToSet(workers) :
          /\ w.pc = "check"
          /\ workers' = Move(w, IF errCtxDone THEN Exited ELSE [w EXCEPT !.pc = "read"])
    /\ UNCHANGED <<op, resSize, pc, ra, cancelled, rd, buf, plan, taskCh, errCtxDone,
                   groupErr, result, hist, fileVars>>
    /\ UNCHANGED <<req, checked, parsed>>

\* readChunk(ctx, preRead, task) returns, in a worker of Do
WorkerRead ==
    /\ pc = "wait"
    /\ op = "Do"
    /\ \E w \in BagToSet(workers) :
          /\ w.pc = "read"
          /\ \E task \in {w.task[1]} :
             \E q \in {ReadAtRequest(Clone(ra), task.hi - task.lo, task.Offset)} :
             \E c \in {ReadAtSend(req, q)} :
             \E resp \in (IF q.send THEN ChunkAnswers(c.range) ELSE {NoResponse}) :
             \E r \in {readChunk(ra, task.Offset, task.hi - task.lo, resp)} :
                        /\ req' = [req EXCEPT !.header = c.proto]
                        /\ buf' = [buf EXCEPT !.segs = Store(@, task.lo, r.copied, r.src)]
                        /\ workers' = Move(w, IF r.err = Nil THEN Idle ELSE Failed(r.err))
                        /\ hist' = [hist EXCEPT
                              !.honest = @ /\ (q.send => resp = HonestResponse(q.range)),
                              !.firstFail = IF @ = Nil THEN r.err ELSE @,
                              !.fails = IF r.err = Nil THEN @ ELSE @ + 1,
                              !.etagChanged = @ \/ (q.send /\ resp.err = Nil
                                                    /\ resp.etag # ra.etag),
                              !.reads = IF r.err = Nil THEN @ \cup {task} ELSE @]
    /\ UNCHANGED <<op, resSize, pc, ra, cancelled, rd, plan, taskCh, result, fileVars>>
    /\ UNCHANGED <<errCtxDone, groupErr, checked, parsed>>

\* errgroup, when the function of a worker has returned a non-nil error:
\* errOnce keeps the first error handed to it and cancels errCtx; the worker
\* is done for Wait() only then
GroupRecord ==
    /\ pc = "wait"
    /\ \E w \in BagToSet(workers) :
          /\ w.pc = "fail"
          /\ workers' = Move(w, Exited)
          /\ groupErr' = GroupErr(w.err)
          /\ errCtxDone' = TRUE
          /\ hist' = IF op = "DoPerChunk" THEN hist
                     ELSE [hist EXCEPT !.firstRecorded = IF @ = Nil THEN w.err ELSE @]
    /\ UNCHANGED <<op, resSize, pc, ra, cancelled, rd, buf, plan, taskCh, result,
                   fileVars>>
    /\ UNCHANGED <<req, checked, parsed>>

\* group.Wait() returns and Do returns
DoReturn ==
    /\ pc = "wait"
    /\ op = "Do"
    /\ BagToSet(workers) = {Exited}
    /\ pc' = "done"
    /\ errCtxDone' = TRUE
    /\ result' = IF groupErr # Nil
                 THEN [returned |-> TRUE, hasBuf |-> FALSE, err |-> groupErr]
                 ELSE [returned |-> TRUE, hasBuf |-> TRUE, err |-> Nil]
    /\ UNCHANGED <<op, resSize, ra, cancelled, rd, buf, plan, taskCh, workers,
                   groupErr, hist, fileVars>>
    /\ UNCHANGED <<req, checked, parsed>>

(***************************************************************************)
(* The other Do of down.go: no test of errCtx, and a reader of its own,    *)
(* made by New, for every chunk                                            *)
(***************************************************************************)
\* Do, from preRead.Size() to the start of the workers
PerChunkStart ==
    /\ pc = "ready"
    /\ op = "DoPerChunk"
    /\ LET totalSize == Size(ra)
           b         == [len |-> totalSize, segs |-> {}]
       IN  IF totalSize < 0
           THEN /\ pc' = "panic"
                /\ UNCHANGED <<buf, plan, taskCh, workers, errCtxDone>>
           ELSE /\ pc' = "wait"
                /\ buf' = b
                /\ plan' = makeTask(totalSize, b)
                /\ taskCh' = makeTask(totalSize, b)
                /\ workers' = SetToBag({Idle}) (+) [w \in {Idle} |-> concurrentCount - 1]
                /\ errCtxDone' = cancelled
    /\ UNCHANGED <<op, resSize, ra, cancelled, rd, groupErr, result, hist, fileVars>>
    /\ UNCHANGED <<req, checked, parsed>>

\* for task := range taskCh, with nothing between the receive and readChunk
PerChunkRecv ==
    /\ pc = "wait"
    /\ op = "DoPerChunk"
    /\ BagIn(Idle, workers)
    /\ IF taskCh = <<>>
       THEN /\ workers' = Move(Idle, Exited)
            /\ UNCHANGED taskCh
       ELSE /\ workers' = Move(Idle, [pc |-> "read", task |-> <<Head(taskCh)>>,
                                      err |-> Nil])
            /\ taskCh' = Tail(taskCh)
    /\ UNCHANGED <<op, resSize, pc, ra, cancelled, rd, buf, plan, errCtxDone,
                   groupErr, result, hist, fileVars>>
    /\ UNCHANGED <<req, checked, parsed>>

\* readChunk(clt, req, task), its New(clt, req): the probe is answered by pr.
\* The worker keeps the reader New returned, or returns New's error.
PerChunkNew ==
    /\ pc = "wait"
    /\ op = "DoPerChunk"
    /\ \E w \in BagToSet(workers) :
          /\ w.pc = "read"
          /\ \E c \in {SendRange(req, ProbeRange)} :
             \E pr \in ProbeAnswers(c.range) :
             \E nr \in {New(TRUE, TRUE, req.method, pr)} :
                        /\ req' = [req EXCEPT !.header = c.proto]
                        /\ workers' = Move(w, IF nr.ok
                                              THEN [pc |-> "readAt", task |-> w.task,
                                                    err |-> Nil, chunkReader |-> nr.meta]
                                              ELSE Failed(nr.err))
    /\ UNCHANGED <<op, resSize, pc, ra, cancelled, rd, buf, plan, taskCh, result,
                   fileVars>>
    /\ UNCHANGED <<errCtxDone, groupErr, checked, parsed, hist>>

\* readChunk(clt, req, task), from chunkReader.ReadAt on: the request of
\* ReadAt is answered by resp and readChunk returns
PerChunkReadAt ==
    /\ pc = "wait"
    /\ op = "DoPerChunk"
    /\ \E w \in BagToSet(workers) :
          /\ w.pc = "readAt"
          /\ \E task \in {w.task[1]} :
             \E q \in {ReadAtRequest(w.chunkReader, task.hi - task.lo, task.Offset)} :
             \E c \in {ReadAtSend(req, q)} :
             \E resp \in (IF q.send THEN ChunkAnswers(c.range) ELSE {NoResponse}) :
             \E r \in {readChunkNew(w.chunkReader, task.Offset, task.hi - task.lo, resp)} :
                        /\ req' = [req EXCEPT !.header = c.proto]
                        /\ buf' = [buf EXCEPT !.segs = Store(@, task.lo, r.copied, r.src)]
                        /\ workers' = Move(w, IF r.err = Nil THEN Idle ELSE Failed(r.err))
    /\ UNCHANGED <<op, resSize, pc, ra, cancelled, rd, plan, taskCh, result, fileVars>>
    /\ UNCHANGED <<errCtxDone, groupErr, checked, parsed, hist>>

\* group.Wait() returns and Do returns
PerChunkReturn ==
    /\ pc = "wait"
    /\ op = "DoPerChunk"
    /\ BagToSet(workers) = {Exited}
    /\ pc' = "done"
    /\ errCtxDone' = TRUE
    /\ result' = IF groupErr # Nil
                 THEN [returned |-> TRUE, hasBuf |-> FALSE, err |-> groupErr]
                 ELSE [returned |-> TRUE, hasBuf |-> TRUE, err |-> Nil]
    /\ UNCHANGED <<op, resSize, ra, cancelled, rd, buf, plan, taskCh, workers,
                   groupErr, hist, fileVars>>
    /\ UNCHANGED <<req, checked, parsed>>

(***************************************************************************)
(* DoWithCheck: Do, then the comparison of the SHA-256 digest              *)
(***************************************************************************)
HexChars == <<"0", "1", "2", "3", "4", "5", "6", "7", "8", "9",
              "a", "b", "c", "d", "e", "f">>

UpperHexChars == <<"0", "1", "2", "3", "4", "5", "6", "7", "8", "9",
                   "A", "B", "C", "D", "E", "F">>

IsHex(c) == c \in SeqRange(HexChars) \cup SeqRange(UpperHexChars)

HexVal(c) == (CHOOSE i \in 1..16 : HexChars[i] = c \/ UpperHexChars[i] = c) - 1

\* hex.DecodeString(s): two hexadecimal digits of either case for each byte
DecodeString(s) ==
    IF Len(s) % 2 # 0 \/ \E i \in 1..Len(s) : ~IsHex(s[i])
    THEN [ok |-> FALSE, bytes |-> <<>>]
    ELSE [ok |-> TRUE,
          bytes |-> [i \in 1..(Len(s) \div 2) |->
                        16 * HexVal(s[2 * i - 1]) + HexVal(s[2 * i])]]

\* hex.EncodeToString(b), by which the caller writes a digest
EncodeToString(b) ==
    [i \in 1..(2 * Len(b)) |->
        IF i % 2 = 1 THEN HexChars[(b[(i + 1) \div 2] \div 16) + 1]
        ELSE HexChars[(b[i \div 2] % 16) + 1]]

\* the same digest written in upper case
EncodeToUpper(b) ==
    [i \in 1..(2 * Len(b)) |->
        IF i % 2 = 1 THEN UpperHexChars[(b[(i + 1) \div 2] \div 16) + 1]
        ELSE UpperHexChars[(b[i \div 2] % 16) + 1]]

\* the three bytes of n, 0 <= n < 2^24
Bytes3(n) == <<n \div 65536, (n \div 256) % 256, n % 256>>

\* The bytes of the resource, as far as a digest can tell them from the
\* zero of make: zeros is the range lo..hi-1 of the positions of the
\* resource that hold 0x00; the other bytes of the resource are not 0x00.
\* A resource without a 0x00 byte, one whose last byte is 0x00, and one of
\* 0x00 bytes only.
ResourceZeros ==
    {[lo |-> 0, hi |-> 0], [lo |-> resSize - 1, hi |-> resSize], [lo |-> 0, hi |-> resSize]}

\* the bytes a buffer holds: a position that holds a 0x00 byte of the
\* resource holds what a position never written holds, so such positions
\* are taken out of the segments
Bytes(b, zeros) ==
    [len |-> b.len,
     segs |-> {[s EXCEPT !.hi = Min(s.hi, zeros.lo - s.d)] :
                   s \in {t \in b.segs : t.lo < zeros.lo - t.d}}
              \cup {[s EXCEPT !.lo = Max(s.lo, zeros.hi - s.d)] :
                       s \in {t \in b.segs : t.hi > zeros.hi - t.d}}]

\* what position x of the content holds: <<>> for 0x00, <<d>> for the byte
\* of the resource at x + d, which is not 0x00
ByteAt(content, x) ==
    IF \E s \in content.segs : s.lo <= x /\ x < s.hi
    THEN <<(CHOOSE s \in content.segs : s.lo <= x /\ x < s.hi).d>>
    ELSE <<>>

\* the positions at which the bytes of the content change their origin
Changes(content) ==
    {x \in {0} \cup {s.lo : s \in content.segs} \cup {s.hi : s \in content.segs} :
        /\ 0 <= x /\ x < content.len
        /\ x = 0 \/ ByteAt(content, x) # ByteAt(content, x - 1)}

\* the bytes of a content written down run by run, from the position at on:
\* for every run its first position and the origin of its bytes
RECURSIVE RunBytes(_, _)
RunBytes(content, at) ==
    IF \A x \in Changes(content) : x < at THEN <<>>
    ELSE LET x == CHOOSE y \in Changes(content) :
                      y >= at /\ \A z \in Changes(content) : z >= at => y <= z
         IN  Bytes3(x)
             \o (IF ByteAt(content, x) = <<>> THEN <<0>> \o Bytes3(0)
                 ELSE <<1>> \o Bytes3(ByteAt(content, x)[1] + 8388608))
             \o RunBytes(content, x + 1)

\* sha256.Sum256(content), content the bytes of a buffer: a digest is a
\* function of the bytes alone, so a byte written as 0x00 and a byte never
\* written count alike.  The model's digest is the length and the runs of
\* the content: equal for equal bytes however the segments are cut.
Sum256(content) == Bytes3(content.len) \o RunBytes(content, 0)

\* equal that takes every well-formed checksum for the right one
equalDecoded(content, checksum) ==
    [b |-> DecodeString(checksum).ok,
     err |-> IF DecodeString(checksum).ok THEN Nil ELSE <<"encoding/hex: invalid">>]

\* equal(content, checksum); hmac.Equal compares the two byte strings
equal(content, checksum) ==
    IF ~DecodeString(checksum).ok
    THEN [b |-> FALSE, err |-> <<"encoding/hex: invalid">>]
    ELSE [b |-> Sum256(content) = DecodeString(checksum).bytes, err |-> Nil]

\* DoWithCheck, after Do returned doResult and, on success, content
DoWithCheck(doResult, content, sha256Sum) ==
    IF doResult.err # Nil
    THEN [returned |-> TRUE, hasBuf |-> FALSE, err |-> doResult.err]
    ELSE IF ~equal(content, sha256Sum).b
    THEN [returned |-> TRUE, hasBuf |-> FALSE,
          err |-> <<"sha256 checksum not equal">>]
    ELSE [returned |-> TRUE, hasBuf |-> TRUE, err |-> Nil]

\* the resource, as a buffer
Resource == [len |-> resSize, segs |-> {[lo |-> 0, hi |-> resSize, d |-> 0]}]

\* the values of sha256Sum for a resource with these zeros: its digest in
\* lower and in upper case, another digest, a digest cut short, and values
\* that are not hexadecimal
Checksums(zeros) ==
    {EncodeToString(Sum256(Bytes(Resource, zeros))),
     EncodeToUpper(Sum256(Bytes(Resource, zeros))),
     EncodeToString(Sum256([len |-> resSize + 1, segs |-> {}])),
     SubSeq(EncodeToString(Sum256(Bytes(Resource, zeros))), 1, 2),
     SubSeq(EncodeToString(Sum256(Bytes(Resource, zeros))), 1, 3),
     <<"z", "z", "1", "1">>}

\* Do has returned to DoWithCheck, which returns.  When Do failed neither
\* the bytes nor sha256Sum are looked at: one value of each stands for all.
DoWithCheckReturn ==
    /\ op \in {"Do", "DoPerChunk"}
    /\ pc = "done"
    /\ checked = <<>>
    /\ \E zeros \in (IF result.err = Nil THEN ResourceZeros ELSE {[lo |-> 0, hi |-> 0]}) :
       \E sha256Sum \in (IF result.err = Nil THEN Checksums(zeros)
                         ELSE {EncodeToString(Sum256(Bytes(Resource, zeros)))}) :
          checked' = <<[sha256Sum |-> sha256Sum, zeros |-> zeros,
                        res |-> DoWithCheck(result, Bytes(buf, zeros), sha256Sum)]>>
    /\ UNCHANGED <<op, resSize, pc, ra, cancelled, rd, buf, plan, taskCh, workers,
                   errCtxDone, groupErr, result, fileVars, req, parsed, hist>>

(***************************************************************************)
(* DoToFile: the file-mode download                                        *)
(***************************************************************************)
\* file.WriteAt(content, off): content is a buffer [len, segs]
WriteAt(f, content, off) ==
    Clip(f, off, off + content.len)
    \cup {[lo |-> s.lo + off, hi |-> s.hi + off, d |-> s.d - off] : s \in content.segs}

\* DoToFile, from preRead.Size() to the start of the workers and the writer
FileStart ==
    /\ pc = "ready"
    /\ op = "DoToFile"
    /\ LET totalSize == Size(ra)
       IN  \E created \in BOOLEAN :
              IF GoDiv(totalSize, chunkSize) < 0
              THEN /\ pc' = "panic"
                   /\ UNCHANGED <<plan, taskCh, workers, errCtxDone, result, writer>>
              ELSE IF ~created
              THEN /\ pc' = "done"
                   /\ result' = [returned |-> TRUE, hasBuf |-> FALSE,
                                 err |-> <<"open: cannot create file">>]
                   /\ UNCHANGED <<plan, taskCh, workers, errCtxDone, writer>>
              ELSE /\ pc' = "wait"
                   /\ plan' = makeFileTask(totalSize)
                   /\ taskCh' = makeFileTask(totalSize)
                   /\ workers' = SetToBag({Idle}) (+) [w \in {Idle} |-> concurrentCount - 1]
                   /\ writer' = [pc |-> "loop", totalWrite |-> 0, err |-> Nil]
                   /\ errCtxDone' = cancelled
                   /\ UNCHANGED result
    /\ UNCHANGED <<op, resSize, ra, cancelled, rd, buf, groupErr, chunkResultCh, file, hist>>
    /\ UNCHANGED <<req, checked, parsed>>

\* readChunk(ctx, preRead, mt) returns, in a worker of DoToFile; mt.Content is
\* the worker's own buffer of task.Size bytes
WorkerReadFile ==
    /\ pc = "wait"
    /\ op = "DoToFile"
    /\ \E w \in BagToSet(workers) :
          /\ w.pc = "read"
          /\ \E task \in {w.task[1]} :
             \E q \in {ReadAtRequest(Clone(ra), task.Size, task.Offset)} :
             \E c \in {ReadAtSend(req, q)} :
             \E resp \in (IF q.send THEN ChunkAnswers(c.range) ELSE {NoResponse}) :
             \E r \in {readChunk(ra, task.Offset, task.Size, resp)} :
             \E mt \in {[Offset |-> task.Offset,
                         Content |-> [len |-> task.Size,
                                      segs |-> Store({}, 0, r.copied, r.src)]]} :
                        /\ req' = [req EXCEPT !.header = c.proto]
                        /\ workers' = Move(w, IF r.err = Nil
                                              THEN [pc |-> "send", task |-> <<mt>>,
                                                    err |-> Nil]
                                              ELSE Failed(r.err))
                        /\ hist' = [hist EXCEPT
                              !.honest = @ /\ (q.send => resp = HonestResponse(q.range)),
                              !.firstFail = IF @ = Nil THEN r.err ELSE @,
                              !.fails = IF r.err = Nil THEN @ ELSE @ + 1,
                              !.etagChanged = @ \/ (q.send /\ resp.err = Nil
                                                    /\ resp.etag # ra.etag),
                              !.reads = IF r.err = Nil THEN @ \cup {task} ELSE @]
    /\ UNCHANGED <<op, resSize, pc, ra, cancelled, rd, buf, plan, taskCh, result,
                   fileVars>>
    /\ UNCHANGED <<errCtxDone, groupErr, checked, parsed>>

\* select { case <-errCtx.Done(): return nil ... } in a worker holding a result
WorkerSendCancelled ==
    /\ pc = "wait"
    /\ errCtxDone
    /\ \E w \in BagToSet(workers) :
          /\ w.pc = "send"
          /\ workers' = Move(w, Exited)
    /\ UNCHANGED <<op, resSize, pc, ra, cancelled, rd, buf, plan, taskCh, errCtxDone,
                   groupErr, result, fileVars, hist>>
    /\ UNCHANGED <<req, checked, parsed>>

\* select { ... case chunkResultCh <- mt: } ; the channel holds len(taskCh) results
WorkerSend ==
    /\ pc = "wait"
    /\ Len(chunkResultCh) < Len(plan)
    /\ \E w \in BagToSet(workers) :
          /\ w.pc = "send"
          /\ workers' = Move(w, Idle)
          /\ chunkResultCh' = Append(chunkResultCh, w.task[1])
    /\ UNCHANGED <<op, resSize, pc, ra, cancelled, rd, buf, plan, taskCh, errCtxDone,
                   groupErr, result, writer, file, hist>>
    /\ UNCHANGED <<req, checked, parsed>>

\* the writer: select { case <-errCtx.Done(): return nil ... }
WriterCancelled ==
    /\ pc = "wait"
    /\ writer.pc = "loop"
    /\ errCtxDone
    /\ writer' = [writer EXCEPT !.pc = "exit"]
    /\ UNCHANGED <<op, resSize, pc, ra, cancelled, rd, buf, plan, taskCh, workers,
                   errCtxDone, groupErr, result, chunkResultCh, file, hist>>
    /\ UNCHANGED <<req, checked, parsed>>

\* the first n bytes of a buffer
Prefix(content, n) ==
    [len |-> n, segs |-> Clip(content.segs, n, Max(n, content.len))]

\* the numbers of bytes a failing file.WriteAt of len bytes may have written
PartialWrites(len) == {n \in {0, 1} : n < len}

\* the writer: select { ... case chunk := <-chunkResultCh: } and the write.
\* A write that fails may have written the first bytes of the chunk; the
\* count WriteAt returns is not looked at.
WriterWrite ==
    /\ pc = "wait"
    /\ writer.pc = "loop"
    /\ chunkResultCh # <<>>
    /\ LET chunk      == Head(chunkResultCh)
           totalWrite == writer.totalWrite + chunk.Content.len
       IN  \E written \in BOOLEAN :
              IF ~written
              THEN /\ \E n \in PartialWrites(chunk.Content.len) :
                         file' = WriteAt(file, Prefix(chunk.Content, n), chunk.Offset)
                   /\ writer' = [writer EXCEPT !.pc = "fail", !.err = <<"write error">>]
                   /\ hist' = [hist EXCEPT !.firstFail = IF @ = Nil THEN <<"write error">>
                                                         ELSE @,
                                           !.fails = @ + 1]
              ELSE /\ file' = WriteAt(file, chunk.Content, chunk.Offset)
                   /\ writer' = [writer EXCEPT
                                    !.pc = IF totalWrite = Size(ra) THEN "exit" ELSE "loop",
                                    !.totalWrite = totalWrite]
                   /\ hist' = [hist EXCEPT !.writes = @ (+) SetToBag({chunk.Offset})]
    /\ chunkResultCh' = Tail(chunkResultCh)
    /\ UNCHANGED <<op, resSize, pc, ra, cancelled, rd, buf, plan, taskCh, workers, result>>
    /\ UNCHANGED <<errCtxDone, groupErr, req, checked, parsed>>

\* errgroup, when the writer's function has returned a non-nil error
GroupRecordWriter ==
    /\ pc = "wait"
    /\ writer.pc = "fail"
    /\ writer' = [writer EXCEPT !.pc = "exit"]
    /\ groupErr' = GroupErr(writer.err)
    /\ errCtxDone' = TRUE
    /\ hist' = [hist EXCEPT !.firstRecorded = IF @ = Nil THEN writer.err ELSE @]
    /\ UNCHANGED <<op, resSize, pc, ra, cancelled, rd, buf, plan, taskCh, workers,
                   result, chunkResultCh, file>>
    /\ UNCHANGED <<req, checked, parsed>>

\* group.Wait() returns and DoToFile returns
FileReturn ==
    /\ pc = "wait"
    /\ op = "DoToFile"
    /\ BagToSet(workers) = {Exited}
    /\ writer.pc = "exit"
    /\ pc' = "done"
    /\ errCtxDone' = TRUE
    /\ result' = [returned |-> TRUE, hasBuf |-> FALSE, err |-> groupErr]
    /\ UNCHANGED <<op, resSize, ra, cancelled, rd, buf, plan, taskCh, workers,
                   groupErr, fileVars, hist>>
    /\ UNCHANGED <<req, checked, parsed>>

Next ==
    \/ CallNewRequestFails
    \/ CallNew
    \/ CallReadAt
    \/ ReadAtReturn
    \/ Cancel
    \/ DoStart
    \/ WorkerRecv
    \/ WorkerCheck
    \/ WorkerRead
    \/ GroupRecord
    \/ DoReturn
    \/ PerChunkStart
    \/ PerChunkRecv
    \/ PerChunkNew
    \/ PerChunkReadAt
    \/ PerChunkReturn
    \/ DoWithCheckReturn
    \/ FileStart
    \/ WorkerReadFile
    \/ WorkerSendCancelled
    \/ WorkerSend
    \/ WriterCancelled
    \/ WriterWrite
    \/ GroupRecordWriter
    \/ FileReturn

Spec == Init /\ [][Next]_vars

\* DoToFile under a scheduler that lets a goroutine take a step whenever one
\* can; the caller is not bound to cancel.  FileNext is the steps the
\* goroutines take on their own: the workers' receive, cancellation test and
\* delivery, the writer's select, the errgroup's taking of an error, and
\* group.Wait().  The fetch of a chunk
\* depends on the transport; that every request returns is stated where a
\* property needs it, as []<>(Reading(workers) = 0).
FileNext ==
    \/ WorkerRecv
    \/ WorkerCheck
    \/ GroupRecord
    \/ WorkerSendCancelled
    \/ WorkerSend
    \/ WriterCancelled
    \/ WriterWrite
    \/ GroupRecordWriter
    \/ FileReturn

FairSpec == Spec /\ WF_vars(FileNext)

(***************************************************************************)
(* parseContentRange called on its own, on the values of ParseInputs       *)
(***************************************************************************)
\* the unit tokens, range sides and length sides the values are made of
ParseUnits == {StrBytes, <<"b", "y", "t", "e">>, <<>>}

ParseRangeSides ==
    {<<"4", "2", "-", "1", "2", "3", "3">>, <<"0", "-", "0">>, <<"*">>, <<"-">>,
     <<"4", "2">>, <<"1", "-", "2", "-", "3">>, <<"a", "-", "1">>, <<"1", "-", "b">>,
     <<"4", "2", "-">>, <<"-", "7">>, <<>>, <<"0", "-">> \o MinInt64Digits}

ParseLengthSides ==
    {<<"1", "2", "3", "4">>, <<"0">>, <<"*">>, <<"-", "1">>, <<"-", "5">>, <<"x">>,
     <<>>, <<"7", "x">>, MinInt64Digits, <<"-">> \o MinInt64Digits \o <<"0">>,
     <<"0", "0", "7">>}

ParseInputs ==
    {u \o <<" ">> \o r \o <<"/">> \o l :
        u \in ParseUnits, r \in ParseRangeSides, l \in ParseLengthSides}
    \cup {StrBytes \o <<" ">> \o r : r \in ParseRangeSides}
    \cup {StrBytes \o <<" ">> \o r \o <<"/">> \o l \o t :
            r \in {<<"0", "-", "0">>, <<"*">>}, l \in {<<"1", "2", "3", "4">>, <<"*">>},
            t \in {<<" ">>, <<" ", "x">>, <<"/", "1">>, <<"/">>}}
    \cup {StrBytes \o <<" ", " ">> \o r \o <<"/", "1">> : r \in {<<"0", "-", "0">>}}
    \cup {<<"g", "a", "r", "b", "a", "g", "e">>, <<>>, StrBytes, <<" ">>, <<"/">>}

ParseInit ==
    /\ op = "parseContentRange"
    /\ resSize = 0
    /\ pc = "start"
    /\ ra = ZeroMeta
    /\ cancelled = FALSE
    /\ rd = <<>>
    /\ buf = NoBuf
    /\ plan = <<>>
    /\ taskCh = <<>>
    /\ workers = EmptyBag
    /\ errCtxDone = FALSE
    /\ groupErr = Nil
    /\ result = NoResult
    /\ chunkResultCh = <<>>
    /\ writer = [pc |-> "none", totalWrite |-> 0, err |-> Nil]
    /\ file = {}
    /\ req = NoRequest
    /\ checked = <<>>
    /\ hist = <<>>
    /\ \E str \in ParseInputs : parsed = [str |-> str, done |-> FALSE, res |-> ParseFail]

\* parseContentRange(str) returns
CallParse ==
    /\ op = "parseContentRange"
    /\ ~parsed.done
    /\ parsed' = [parsed EXCEPT !.done = TRUE, !.res = parseContentRange(parsed.str)]
    /\ UNCHANGED <<op, resSize, pc, ra, cancelled, rd, buf, plan, taskCh, workers,
                   errCtxDone, groupErr, result, fileVars, req, checked, hist>>

ParseNext == CallParse

ParseSpec == ParseInit /\ [][ParseNext]_vars

(***************************************************************************)
(* Properties                                                              *)
(***************************************************************************)
\* the entry point returned a buffer and a nil error
DoSucceeded == op = "Do" /\ pc = "done" /\ result.hasBuf /\ result.err = Nil

\* the size of a planned task
TaskSize(t) == IF op = "DoToFile" THEN t.Size ELSE t.hi - t.lo

\* the ReadAt call whose result rd holds
TheCall == rd[1]

\* C1: buffer-mode Do against a server that honors every Range request for
\* an unchanged resource, with no timeout and no cancellation, returns a nil
\* error and a buffer of the resource's size whose every byte is the byte
\* of the resource at the same position.
C1_DoReturnsTheResource ==
    (op = "Do" /\ pc = "done" /\ hist.probed /\ hist.honest /\ ~cancelled)
    => /\ result.returned /\ result.hasBuf /\ result.err = Nil
       /\ buf.len = resSize
       /\ Holds(buf.segs, 0, resSize, 0)
       /\ \A s \in buf.segs : 0 <= s.lo /\ s.hi <= buf.len

\* C1, amended: buffer-mode Do against a server that honors every Range
\* request for an unchanged resource of at least one byte, with no timeout
\* and no cancellation, returns a nil error and a buffer of the resource's
\* size whose every byte is the byte of the resource at the same position.
\* For an empty resource the probe for bytes=0-0 cannot be satisfied, the
\* server answers 416, and Do returns the error of New and no buffer.
C1_DoReturnsTheNonEmptyResource ==
    (op = "Do" /\ pc = "done" /\ hist.probed /\ hist.honest /\ ~cancelled)
    => IF resSize >= 1
       THEN /\ result.returned /\ result.hasBuf /\ result.err = Nil
            /\ buf.len = resSize
            /\ Holds(buf.segs, 0, resSize, 0)
            /\ \A s \in buf.segs : 0 <= s.lo /\ s.hi <= buf.len
       ELSE /\ result.returned /\ ~result.hasBuf
            /\ result.err = <<"unexpect http request">>
            /\ hist.probeStatus = StatusRangeNotSatisfiable
            /\ buf = NoBuf /\ plan = <<>>

C1_Witness ==
    /\ DoSucceeded /\ hist.honest /\ ~cancelled
    /\ Len(plan) = 2 /\ Len(plan) < concurrentCount
    /\ resSize % chunkSize # 0

\* C2: Do returns a buffer with a nil error only if every task of the plan
\* was read in full into its window; in every other execution it returns a
\* non-nil error and no buffer.  (Stated for the executions in which the
\* server answers every request honestly.)
C2_SuccessOnlyWhenAllChunksRead ==
    (op = "Do" /\ pc = "done" /\ hist.probed /\ hist.honest)
    => IF \A i \in 1..Len(plan) : plan[i] \in hist.reads
       THEN TRUE
       ELSE result.err # Nil /\ ~result.hasBuf

\* C3: for a total size T >= 0 both planners give floor(T/C) chunks of size
\* C at the offsets 0, C, 2C, ... and then one chunk of size T mod C exactly
\* when T is not a multiple of C; every size is > 0, the ranges are pairwise
\* disjoint and their union is [0, T).
C3_PlanPartitions ==
    (pc = "wait" /\ Size(ra) >= 0)
    => LET T    == Size(ra)
           full == T \div chunkSize
       IN  /\ Len(plan) = full + (IF T % chunkSize # 0 THEN 1 ELSE 0)
           /\ \A i \in 1..Len(plan) :
                 /\ plan[i].Offset = (i - 1) * chunkSize
                 /\ TaskSize(plan[i]) = IF i <= full THEN chunkSize ELSE T % chunkSize
                 /\ TaskSize(plan[i]) > 0
                 /\ op = "Do" => plan[i].lo = plan[i].Offset
           /\ \A i, j \in 1..Len(plan) :
                 i < j => plan[i].Offset + TaskSize(plan[i]) <= plan[j].Offset
           /\ \A i \in 1..Len(plan) :
                 plan[i].Offset + TaskSize(plan[i])
                    = IF i < Len(plan) THEN plan[i + 1].Offset ELSE T
           /\ (T > 0) => Len(plan) > 0 /\ plan[1].Offset = 0

C3_Witness ==
    /\ pc = "wait" /\ op = "DoToFile"
    /\ Len(plan) = 2
    /\ Size(ra) % chunkSize \notin {0, 1}

\* C4: in Do and DoToFile, when a chunk fetch or the writer's write fails,
\* the call returns a non-nil error, the error of the first goroutine that
\* failed; the goroutines that stop on cancellation do not replace it.
C4_FirstErrorIsReturned ==
    (op \in {"Do", "DoToFile"} /\ pc = "done" /\ hist.fails > 0)
    => /\ result.returned
       /\ result.err # Nil
       /\ result.err = hist.firstFail
       /\ ~result.hasBuf

\* C4, amended: in Do and DoToFile, when a chunk fetch or the writer's write
\* fails, the call returns a non-nil error and no buffer: the first error
\* handed to the errgroup, which is the error of the first goroutine to fail
\* when no other goroutine failed before that error was taken; the
\* goroutines that stop on cancellation add no error and do not replace it.
C4_FirstRecordedErrorIsReturned ==
    /\ (op \in {"Do", "DoToFile"} /\ pc = "done" /\ hist.fails > 0)
       => /\ result.returned
          /\ result.err # Nil
          /\ result.err = hist.firstRecorded
          /\ ~result.hasBuf
          /\ hist.fails = 1 => result.err = hist.firstFail
    /\ (op \in {"Do", "DoToFile"} /\ pc = "wait" /\ hist.firstRecorded # Nil
          /\ Failing(workers) = 0 /\ writer.pc # "fail" /\ hist.fails = 1)
       => hist.firstRecorded = hist.firstFail
    /\ (op \in {"Do", "DoToFile"} /\ hist.fails = 0) => groupErr = Nil

C4_Witness ==
    /\ op = "DoToFile" /\ pc = "done" /\ hist.fails >= 2
    /\ result.err = hist.firstRecorded
    /\ result.err # hist.firstFail
    /\ result.err # Nil

\* the response of the call passed getMeta and differs from the snapshot
MetaChanged(c) ==
    /\ c.res.sent /\ c.resp.err = Nil /\ c.resp.status = StatusPartialContent
    /\ getMeta(c.resp).err = Nil
    /\ \/ getMeta(c.resp).meta.size # ra.size
       \/ getMeta(c.resp).meta.lastModified # ra.lastModified
       \/ getMeta(c.resp).meta.etag # ra.etag

\* C5: when the 206 response to a ReadAt reports a size, Last-Modified or
\* ETag other than the snapshot of the probe, ReadAt returns
\* ErrValidationFailed and 0 bytes; and when a chunk response of Do or
\* DoToFile carries another ETag, the download returns an error.
C5_ChangedResourceFailsValidation ==
    /\ (op = "ReadAt" /\ rd # <<>> /\ MetaChanged(TheCall))
       => TheCall.res.err = ErrValidationFailed /\ TheCall.res.n = 0
                /\ TheCall.res.copied = 0
    /\ (op \in {"Do", "DoToFile"} /\ pc = "done" /\ hist.etagChanged)
       => result.err # Nil /\ ~result.hasBuf

C5_Witness ==
    /\ op = "ReadAt" /\ rd # <<>> /\ MetaChanged(TheCall)
    /\ TheCall.resp.etag # ra.etag
    /\ TheCall.resp.cr = HonestResponse(TheCall.res.range).cr
    /\ TheCall.res.err = ErrValidationFailed

\* the request of the call asked the server for first..last
Requested(c, first, last) ==
    /\ c.res.sent
    /\ ParseRange(c.res.range) = [ok |-> TRUE, first |-> first, last |-> last]

\* the server answered the call honestly, as it did the probe
AnsweredHonestly(c) == hist.honest /\ c.resp = HonestResponse(c.res.range)

\* C6: for a reader with known size S, a buffer of L bytes and an offset
\* off >= 0: L = 0 gives (0, nil) and no request; L > 0 and off >= S gives
\* (0, EOF) and no request; off < S < off + L gives one request for
\* off..S-1 and, on an honest answer, (S - off, EOF); off + L <= S gives a
\* request for off..off+L-1 and, on an honest answer, (L, nil).
C6_ReadAtClamps ==
    (op = "ReadAt" /\ rd # <<>> /\ Size(ra) # -1)
    => LET c == TheCall
           S == Size(ra)
           L == c.plen
       IN  /\ L = 0 => ~c.res.sent /\ c.res.n = 0 /\ c.res.err = Nil
           /\ (L > 0 /\ c.off >= S) => ~c.res.sent /\ c.res.n = 0 /\ c.res.err = EOF
           /\ (L > 0 /\ c.off < S /\ S < c.off + L)
              => /\ Requested(c, c.off, S - 1)
                 /\ AnsweredHonestly(c) => c.res.n = S - c.off /\ c.res.err = EOF
           /\ (L > 0 /\ c.off + L <= S)
              => /\ Requested(c, c.off, c.off + L - 1)
                 /\ AnsweredHonestly(c) => c.res.n = L /\ c.res.err = Nil

C6_Witness ==
    /\ op = "ReadAt" /\ rd # <<>> /\ Size(ra) > chunkSize
    /\ TheCall.plen = 2 /\ TheCall.off = Size(ra) - 1
    /\ AnsweredHonestly(TheCall)
    /\ TheCall.res.n = 1 /\ TheCall.res.err = EOF

\* C7: DoToFile returns nil only if the writer has written as many bytes as
\* the size of the resource, every planned chunk once and at its offset.
\* (Stated for the executions in which the server answers every request
\* honestly.)
C7_FileSuccessOnlyWhenAllWritten ==
    (op = "DoToFile" /\ pc = "done" /\ result.err = Nil /\ hist.probed /\ hist.honest)
    => /\ writer.totalWrite = Size(ra)
       /\ \A i \in 1..Len(plan) : CopiesIn(plan[i].Offset, hist.writes) = 1
       /\ Holds(file, 0, Size(ra), 0)

\* C8: a status other than 206 is rejected at both stages: New returns an
\* error and no reader, ReadAt returns 0 bytes and an error that wraps
\* ErrNoRange.
C8_Only206Accepted ==
    /\ (hist.probed /\ hist.probeStatus # 0 /\ hist.probeStatus # StatusPartialContent)
       => pc = "done" /\ result.err # Nil /\ ra = ZeroMeta
    /\ (op = "ReadAt" /\ rd # <<>> /\ TheCall.res.sent /\ TheCall.resp.err = Nil
          /\ TheCall.resp.status # StatusPartialContent)
       => /\ TheCall.res.n = 0 /\ TheCall.res.copied = 0
          /\ ErrorsIs(TheCall.res.err, ErrNoRange)

C8_Witness ==
    /\ op = "ReadAt" /\ rd # <<>> /\ TheCall.res.sent /\ TheCall.resp.err = Nil
    /\ TheCall.resp.status = StatusOK
    /\ ErrorsIs(TheCall.res.err, ErrNoRange)

\* C9: after a successful construction Size() is -1 when the probe's 206
\* response gave no total length (Content-Range "bytes F-L/*", or no
\* Content-Range header at all), and the length N of the header otherwise.
C9_SizeUnknownIsMinusOne ==
    (pc = "ready")
    => Size(ra) = IF hist.probeCR = <<>> THEN -1
                  ELSE parseContentRange(hist.probeCR).length

\* the response of the call passed every check that precedes the body
Validated(c) ==
    /\ c.res.sent /\ c.resp.err = Nil /\ c.resp.status = StatusPartialContent
    /\ getMeta(c.resp).err = Nil
    /\ ~MetaChanged(c)
    /\ getMeta(c.resp).meta.start = c.off
    /\ getMeta(c.resp).meta.end <= ParseRange(c.res.range).last
    /\ c.resp.cl = getMeta(c.resp).meta.end - getMeta(c.resp).meta.start + 1

\* C10: when the body of a validated response ends before the (clamped)
\* number of requested bytes is read, ReadAt reports end-of-resource only if
\* the bytes received are exactly the expected length; any other incomplete
\* body is a transport error.  (Stated for a reader whose probe was answered
\* honestly.)
C10_TruncatedBodyIsNotEOF ==
    (op = "ReadAt" /\ rd # <<>> /\ hist.honest /\ Validated(TheCall)
       /\ TheCall.res.n < ReadAtRequest(ra, TheCall.plen, TheCall.off).plen
       /\ TheCall.res.n # TheCall.resp.cl)
    => TheCall.res.err # Nil /\ TheCall.res.err # EOF

\* C11: for every call ReadAt(p, off) and every answer of the server the
\* count n is within 0..len(p), no more than n bytes are stored in p, and
\* n < len(p) comes with a non-nil error; when the bytes are missing because
\* the resource ends, the error is io.EOF.
C11_ShortReadHasError ==
    (op = "ReadAt" /\ rd # <<>>)
    => /\ 0 <= TheCall.res.n /\ TheCall.res.n <= TheCall.plen
       /\ TheCall.res.copied <= TheCall.plen
       /\ TheCall.res.n < TheCall.plen => TheCall.res.err # Nil
       /\ (/\ hist.honest /\ TheCall.plen > 0
           /\ TheCall.off + TheCall.plen > Size(ra)
           /\ TheCall.res.sent => TheCall.resp = HonestResponse(TheCall.res.range))
          => /\ TheCall.res.err = EOF
             /\ TheCall.res.n = Max(0, Size(ra) - TheCall.off)

C11_Witness ==
    /\ op = "ReadAt" /\ rd # <<>> /\ TheCall.res.sent
    /\ TheCall.resp.body.len = TheCall.plen - 1
    /\ TheCall.res.n > 0 /\ TheCall.res.n < TheCall.plen
    /\ TheCall.res.err = EOF

\* the parts of the value of a parseContentRange call
ParseTokens == Split(parsed.str, " ")

ParseSides == Split(ParseTokens[2], "/")

ParseBounds == Split(ParseSides[1], "-")

\* the numbers the wire forms are written with
ParseNumbers == {0, 42, 1233, 1234}

\* the value has the shape of one of the wire forms: the token "bytes", one
\* space, a range side that is "*" or two integers with a "-" between, one
\* "/", a length side that is "*" or an integer, and not "*/*"
ParseWellFormed ==
    /\ Len(ParseTokens) = 2 /\ ParseTokens[1] = StrBytes
    /\ Len(ParseSides) = 2
    /\ ParseSides[2] = <<"*">> \/ ParseInt(ParseSides[2]).ok
    /\ \/ ParseSides[1] = <<"*">>
       \/ Len(ParseBounds) = 2 /\ ParseInt(ParseBounds[1]).ok
                               /\ ParseInt(ParseBounds[2]).ok
    /\ ~(ParseSides[1] = <<"*">> /\ ParseSides[2] = <<"*">>)

\* the length side of the value is written with a sign
ParseSignedLength ==
    /\ Len(ParseTokens) = 2 /\ Len(ParseSides) = 2
    /\ ParseSides[2] # <<>> /\ ParseSides[2][1] \in {"-", "+"}

\* C12: parseContentRange returns (F, L, N) for "bytes F-L/N", (F, L, -1) for
\* "bytes F-L/*" and (-1, -1, N) for "bytes */N"; it fails for a value
\* without the token "bytes", without a "/" part, with a range side that is
\* neither "*" nor two integers, with a trailing or extra token, and for
\* "bytes */*"; a failure returns (-1, -1, -1) and the parse error.  (The
\* values accepted are stated for length sides written without a sign.)
C12_ParseContentRange ==
    (op = "parseContentRange" /\ parsed.done)
    => /\ \A f, l, n \in ParseNumbers :
             /\ parsed.str = ContentRange(f, l, n)
                => parsed.res = [first |-> f, last |-> l, length |-> n, err |-> Nil]
             /\ parsed.str = ContentRangeStar(f, l)
                => parsed.res = [first |-> f, last |-> l, length |-> -1, err |-> Nil]
             /\ parsed.str = ContentRangeUnsatisfied(n)
                => parsed.res = [first |-> -1, last |-> -1, length |-> n, err |-> Nil]
       /\ ~ParseWellFormed => parsed.res = ParseFail
       /\ ~ParseSignedLength => (parsed.res.err = Nil <=> ParseWellFormed)
       /\ parsed.res.err # Nil => parsed.res = ParseFail

C12_Witness ==
    /\ op = "parseContentRange" /\ parsed.done
    /\ parsed.str = ContentRangeUnsatisfied(1234)
    /\ parsed.res = [first |-> -1, last |-> -1, length |-> 1234, err |-> Nil]

\* C13: parseContentRange fails when the length side is neither "*" nor an
\* integer >= 0: a length of -1 is returned for "*" only and no successful
\* parse returns a negative length read from a number.
C13_LengthIsNotNegative ==
    (op = "parseContentRange" /\ parsed.done /\ parsed.res.err = Nil)
    => IF ParseSides[2] = <<"*">> THEN parsed.res.length = -1
       ELSE parsed.res.length >= 0

\* C17: ReadAt never modifies the reader: after any ReadAt calls, of the
\* caller or of the workers of a download, whatever their outcome, the meta
\* and the header of the prototype request are those of the construction
\* (no Range header is written to the prototype).
C17_ReadAtKeepsTheReader ==
    (op \in {"ReadAt", "Do", "DoToFile"} /\ pc # "start" /\ hist.probed)
    => /\ req.header = hist.proto
       /\ ra = hist.meta
       /\ (op = "ReadAt" /\ rd # <<>> /\ TheCall.res.sent)
          => TheCall.res = ReadAt(hist.meta, TheCall.plen, TheCall.off, TheCall.resp)

C17_Witness ==
    /\ op = "ReadAt" /\ rd # <<>> /\ TheCall.res.sent /\ TheCall.res.n > 0
    /\ "Authorization" \in DOMAIN req.header
    /\ HeaderGet(req.header, "Range") # TheCall.res.range
    /\ req.header = hist.proto

\* the call of DoWithCheck whose result checked holds
TheCheck == checked[1]

\* C14: DoWithCheck returns the bytes and a nil error if and only if Do
\* succeeded and the SHA-256 digest of the content is the digest decoded from
\* the expected hex string; when Do failed it returns Do's error and no
\* bytes; when the digest differs or the expected value is not valid hex it
\* returns a checksum error and no bytes.
C14_DoWithCheck ==
    (op = "Do" /\ checked # <<>>)
    => /\ (TheCheck.res.err = Nil /\ TheCheck.res.hasBuf)
          <=> /\ result.err = Nil /\ result.hasBuf
              /\ DecodeString(TheCheck.sha256Sum).ok
              /\ DecodeString(TheCheck.sha256Sum).bytes
                     = Sum256(Bytes(buf, TheCheck.zeros))
       /\ TheCheck.res.err = Nil <=> TheCheck.res.hasBuf
       /\ result.err # Nil => TheCheck.res.err = result.err
       /\ (result.err = Nil /\ TheCheck.res.err # Nil)
          => TheCheck.res.err = <<"sha256 checksum not equal">>

C14_Witness ==
    /\ op = "Do" /\ checked # <<>> /\ hist.honest /\ ~cancelled
    /\ resSize > chunkSize
    /\ TheCheck.zeros = [lo |-> resSize - 1, hi |-> resSize]
    /\ TheCheck.sha256Sum = EncodeToUpper(Sum256(Bytes(Resource, TheCheck.zeros)))
    /\ TheCheck.sha256Sum # EncodeToString(Sum256(Bytes(Resource, TheCheck.zeros)))
    /\ TheCheck.res.err = Nil /\ TheCheck.res.hasBuf

\* C15: once errCtx is cancelled, the cancellation is observed between tasks
\* and not during a request: no worker passes its check any more, so the
\* workers that fetch are those that had passed it, each for the one task it
\* holds; the tasks still queued are fetched by nobody, and a worker that
\* stops at its check returns no error.
C15_CancellationBetweenTasks ==
    [][(op \in {"Do", "DoToFile"} /\ pc = "wait" /\ errCtxDone)
       => /\ Reading(workers') <= Reading(workers)
          /\ Reading(workers') = Reading(workers)
             => (hist'.reads = hist.reads /\ Failing(workers') <= Failing(workers))
          /\ Reading(workers') < Reading(workers)
             => Reading(workers') = Reading(workers) - 1]_vars

C15_Witness ==
    /\ op = "Do" /\ pc = "wait" /\ errCtxDone /\ ~cancelled
    /\ hist.fails = 1 /\ groupErr # Nil
    /\ Reading(workers) = 1
    /\ Failing(workers) = 0

\* how many times the task is in the queue
Queued(t) == Cardinality({j \in 1..Len(taskCh) : taskCh[j] = t})

\* how many workers hold the task, before or during its fetch
Held(t) ==
    BagCardinality([w \in {x \in BagToSet(workers) :
                              x.pc \in {"check", "read"} /\ x.task = <<t>>}
                      |-> CopiesIn(w, workers)])

\* C16: during a download every task is taken from the pre-filled queue by
\* at most one worker and no task is added once the workers run; in buffer
\* mode the windows of the workers never overlap and a window is written
\* once, by the one worker that took its task.
C16_OneWorkerPerTask ==
    (op \in {"Do", "DoToFile"} /\ pc \in {"wait", "done"} /\ Size(ra) >= 0)
    => /\ \E k \in 1..(Len(plan) + 1) : taskCh = SubSeq(plan, k, Len(plan))
       /\ \A i \in 1..Len(plan) :
             /\ Queued(plan[i]) + Held(plan[i])
                   + (IF plan[i] \in hist.reads THEN 1 ELSE 0) <= 1
             /\ (op = "Do" /\ ~Untouched(buf.segs, plan[i].lo, plan[i].hi))
                => Queued(plan[i]) + Held(plan[i]) = 0
       /\ \A w \in BagToSet(workers) :
             w.pc \in {"check", "read"} => \E i \in 1..Len(plan) : w.task = <<plan[i]>>
       /\ op = "Do" =>
             \A s \in buf.segs : \E i \in 1..Len(plan) :
                 plan[i].lo <= s.lo /\ s.hi <= plan[i].hi

C16_Witness ==
    /\ op = "Do" /\ pc = "wait" /\ Len(plan) = 2 /\ taskCh = <<>>
    /\ Reading(workers) = 2
    /\ \A i \in 1..2 : Held(plan[i]) = 1

\* the errors of a response that does not fit the request
MismatchErrors ==
    {<<"received different range than requested">>,
     <<"content-length mismatch in http response">>}

\* the call got a 206 response whose meta is that of the snapshot
PassedValidation(c) ==
    /\ c.res.sent /\ c.resp.err = Nil /\ c.resp.status = StatusPartialContent
    /\ getMeta(c.resp).err = Nil
    /\ ~MetaChanged(c)

\* the response reports another start, an end past the requested one, or a
\* Content-Length that is not end - start + 1
Mismatch(c) ==
    \/ getMeta(c.resp).meta.start # ParseRange(c.res.range).first
    \/ getMeta(c.resp).meta.end > ParseRange(c.res.range).last
    \/ c.resp.cl # getMeta(c.resp).meta.end - getMeta(c.resp).meta.start + 1

\* C18: for a 206 response that passes the validation, ReadAt returns a
\* mismatch error and 0 bytes, and stores nothing in p, when the reported
\* start is not the requested one, the reported end is past the requested
\* (clamped) end, or Content-Length is not end - start + 1; a response that
\* ends before the requested end and is consistent is not rejected.
C18_RangeMismatchIsRejected ==
    (op = "ReadAt" /\ rd # <<>> /\ PassedValidation(TheCall))
    => /\ Mismatch(TheCall)
          => /\ TheCall.res.err \in MismatchErrors
             /\ TheCall.res.n = 0 /\ TheCall.res.copied = 0
       /\ ~Mismatch(TheCall) => TheCall.res.err \notin MismatchErrors

C18_Witness ==
    /\ op = "ReadAt" /\ rd # <<>> /\ PassedValidation(TheCall)
    /\ ~Mismatch(TheCall)
    /\ getMeta(TheCall.resp).meta.end < ParseRange(TheCall.res.range).last
    /\ TheCall.res.n > 0
    /\ TheCall.res.err \notin MismatchErrors

\* C19: DoToFile always terminates: whatever size the probe reported and
\* however the chunk fetches end, provided each transport request eventually
\* returns (no worker stays in its fetch forever), the workers and the writer
\* exit and DoToFile returns, without a cancellation by the caller.
C19_DoToFileTerminates ==
    []<>(Reading(workers) = 0)
        => ((op = "DoToFile" /\ pc = "wait") ~> (pc = "done"))

\* C20: Do never crashes on the size the probe reported: for every size the
\* reader holds after a successful New (positive, 0, or -1 for unknown), the
\* allocation of the buffer and the slicing of the chunk windows stay within
\* bounds, and Do ends by returning a buffer or an error.
C20_DoNeverPanics ==
    op = "Do" => pc # "panic"

====
